---- MODULE Spec2Model ----
(***************************************************************************)
(* A model of the strategic planning agent (src/planning_agent.py) and of  *)
(* the request handler that drives it (src/agent_api.py).                  *)
(*                                                                         *)
(* The agent is a record of its dataclass fields.  The pure methods        *)
(* (build_plan, generate_narrative, generate_milestones) are operators on  *)
(* that record; the mutating methods are actions on the variable `agent'.  *)
(* A call that raises is a result record with status "raise" that carries  *)
(* the Python exception type.                                              *)
(***************************************************************************)
EXTENDS Integers, Sequences, FiniteSets, TLC

(***************************************************************************)
(* Bounds of the model.                                                    *)
(***************************************************************************)
FirstYear == 2025
LastYear == 2026
MaxEntries == 3

Years == FirstYear .. LastYear

(***************************************************************************)
(* Python values.  A value is None, an int, a float (kept in thousandths), *)
(* or a str.                                                               *)
(***************************************************************************)
None == [t |-> "none", n |-> 0, s |-> ""]
PyInt(n) == [t |-> "int", n |-> n, s |-> ""]
PyFloat(n) == [t |-> "float", n |-> n, s |-> ""]
PyStr(s) == [t |-> "str", n |-> 0, s |-> s]

IsNumeric(v) == v.t \in {"int", "float"}

\* The outcome of evaluating one replacement field of an f-string.
Ok(s) == [ok |-> TRUE, s |-> s, exc |-> ""]
Raise(e) == [ok |-> FALSE, s |-> "", exc |-> e]

\* Round n/d to the nearest integer, ties to even (what '.0f' does).
RoundHalfEven(n, d) ==
    LET q == n \div d
        r == n % d
    IN  IF 2 * r < d THEN q
        ELSE IF 2 * r > d THEN q + 1
        ELSE IF q % 2 = 0 THEN q ELSE q + 1

Pad3(n) ==
    IF n < 10 THEN "00" \o ToString(n)
    ELSE IF n < 100 THEN "0" \o ToString(n)
    ELSE ToString(n)

RECURSIVE Grouped(_)
\* The ',' option of the format mini-language on a non-negative integer.
Grouped(n) ==
    IF n < 1000 THEN ToString(n)
    ELSE Grouped(n \div 1000) \o "," \o Pad3(n % 1000)

\* f"{value:.0f}": the same without the ',' option.
FormatUngrouped(v) ==
    CASE v.t = "int" -> Ok(ToString(v.n))
      [] v.t = "float" -> Ok(ToString(RoundHalfEven(v.n, 1000)))
      [] v.t = "none" -> Raise("TypeError")
      [] v.t = "str" -> Raise("ValueError")

\* f"{value:,.0f}"
FormatGrouped(v) ==
    CASE v.t = "int" -> Ok(Grouped(v.n))
      [] v.t = "float" -> Ok(Grouped(RoundHalfEven(v.n, 1000)))
      [] v.t = "none" -> Raise("TypeError")
      [] v.t = "str" -> Raise("ValueError")

\* f"{value*100:.0f}"
FormatPercent(v) ==
    CASE v.t = "int" -> Ok(ToString(v.n * 100))
      [] v.t = "float" -> Ok(ToString(RoundHalfEven(v.n, 10)))
      [] v.t = "none" -> Raise("TypeError")
      [] v.t = "str" -> Raise("ValueError")

RECURSIVE FracDigits(_)
\* The digits after the point of a number of thousandths, trailing zeros cut.
FracDigits(m) ==
    IF m % 10 = 0 THEN (IF m = 0 THEN "0" ELSE FracDigits(m \div 10))
    ELSE ToString(m)

FracRepr(n) ==
    LET f == n % 1000
        lead == IF f = 0 THEN "" ELSE IF f < 10 THEN "00" ELSE IF f < 100 THEN "0" ELSE ""
    IN  ToString(n \div 1000) \o "." \o
        (IF f = 0 THEN "0" ELSE lead \o FracDigits(f))

\* f"{value}"
FormatPlain(v) ==
    CASE v.t = "int" -> Ok(ToString(v.n))
      [] v.t = "float" -> Ok(FracRepr(v.n))
      [] v.t = "none" -> Ok("None")
      [] v.t = "str" -> Ok(v.s)

(***************************************************************************)
(* Python containers.  A dict is a function; dict.get(k) is Get.           *)
(***************************************************************************)
Get(d, k) == IF k \in DOMAIN d THEN d[k] ELSE None
EmptyDict == [k \in {} |-> None]

RECURSIVE SortedSeq(_)
\* sorted(set(...)) of a finite set of integers.
SortedSeq(S) ==
    IF S = {} THEN <<>>
    ELSE LET m == CHOOSE x \in S : \A y \in S : x <= y
         IN  <<m>> \o SortedSeq(S \ {m})

RECURSIVE Join(_, _)
\* sep.join(list of str)
Join(sep, xs) ==
    IF xs = <<>> THEN ""
    ELSE IF Len(xs) = 1 THEN xs[1]
    ELSE xs[1] \o sep \o Join(sep, Tail(xs))

(***************************************************************************)
(* datetime.date arithmetic, as far as generate_milestones uses it.        *)
(***************************************************************************)
IsLeap(y) == (y % 4 = 0 /\ y % 100 # 0) \/ y % 400 = 0
DaysInYear(y) == IF IsLeap(y) THEN 366 ELSE 365
DaysInMonth(y, m) ==
    IF m = 2 THEN (IF IsLeap(y) THEN 29 ELSE 28)
    ELSE IF m \in {4, 6, 9, 11} THEN 30 ELSE 31

RECURSIVE MonthDay(_, _, _)
\* The <<month, day>> of the date `days' days after the first of month m.
MonthDay(y, m, days) ==
    IF days < DaysInMonth(y, m) THEN <<m, days + 1>>
    ELSE MonthDay(y, m + 1, days - DaysInMonth(y, m))

RECURSIVE DatePlusDays(_, _)
\* datetime.date(y, 1, 1) + datetime.timedelta(days=days), as <<year, month, day>>.
DatePlusDays(y, days) ==
    IF days < DaysInYear(y) THEN <<y>> \o MonthDay(y, 1, days)
    ELSE DatePlusDays(y + 1, days - DaysInYear(y))

Pad2(n) == IF n < 10 THEN "0" \o ToString(n) ELSE ToString(n)
\* date.isoformat()
IsoFormat(d) == ToString(d[1]) \o "-" \o Pad2(d[2]) \o "-" \o Pad2(d[3])

(***************************************************************************)
(* StrategicPlanningAgent: the dataclass and its read-only methods.        *)
(***************************************************************************)
CoreKeys == {"year", "revenue", "customers", "gross_margin"}

\* The extra metric names of the model, in the order other_targets.items()
\* yields them.  "revenue" is an extra metric that shares a key of the row.
MetricOrder == <<"net_profit", "revenue">>
MetricNames == {MetricOrder[i] : i \in 1..Len(MetricOrder)}

\* metric.replace('_', ' ')
MetricLabel(metric) == IF metric = "net_profit" THEN "net profit" ELSE metric

\* The dataclass constructor: the five required fields, the defaults of
\* the others, and start_year.
NewAgent(name, mission, vision, values, baseline, start) ==
    [company_name |-> name, mission |-> mission, vision |-> vision,
     core_values |-> values, baseline_metrics |-> baseline,
     revenue_targets |-> EmptyDict, customer_targets |-> EmptyDict,
     margin_targets |-> EmptyDict, other_targets |-> EmptyDict,
     revenue_moves |-> <<>>, profit_moves |-> <<>>,
     swot |-> None, start_year |-> start]

TotalMonths == 36
DefaultCadence == 6

\* Two slips of the range: the end of the horizon included, and the last
\* partial interval dropped.
MonthOffsetsThroughEnd(m) == [k \in 1..(TotalMonths \div m + 1) |-> (k - 1) * m]
MonthOffsetsWholeIntervals(m) == [k \in 1..(TotalMonths \div m) |-> (k - 1) * m]

\* range(0, total_months, months_per_milestone)
MonthOffsets(m) == [k \in 1..((TotalMonths + m - 1) \div m) |-> (k - 1) * m]

\* The method with the dates advanced by calendar months instead of 30 days.
generate_milestones_by_calendar_month(a, m) ==
    [k \in DOMAIN MonthOffsets(m) |->
        LET i == MonthOffsets(m)[k]
            date == <<a.start_year + (i \div 12), (i % 12) + 1, 1>>
            year_offset == (date[1] - a.start_year) + 1
        IN  [date |-> date,
             name |-> "Milestone " \o ToString(i \div m + 1) \o " - Year "
                       \o ToString(year_offset)]]

generate_milestones(a, m) ==
    [k \in DOMAIN MonthOffsets(m) |->
        LET i == MonthOffsets(m)[k]
            date == DatePlusDays(a.start_year, 30 * i)
            year_offset == (date[1] - a.start_year) + 1
        IN  [date |-> date,
             name |-> "Milestone " \o ToString(i \div m + 1) \o " - Year "
                       \o ToString(year_offset)]]

suggest_kpis ==
    [financial |-> <<"Annual revenue", "Gross margin", "Net profit", "EBITDA",
                     "Cash burn rate", "Runway (months of operating cash)">>,
     customer |-> <<"Number of customers", "Customer acquisition cost (CAC)",
                    "Customer lifetime value (LTV)", "Churn rate",
                    "Net promoter score (NPS)">>,
     marketing |-> <<"Website traffic", "Leads generated", "Conversion rate",
                     "Cost per lead", "Social media engagement">>,
     operations |-> <<"Product/service delivery time", "Defect/return rate",
                      "Operational efficiency (output per employee)",
                      "Inventory turnover rate",
                      "On-time project completion percentage">>,
     hr |-> <<"Employee retention rate", "Employee satisfaction score",
              "Time to hire", "Diversity ratio", "AI adoption in HR processes">>]

\* The provider names of the static catalogue (features and notes are fixed
\* text that no method reads).
recommend_services ==
    [legal |-> <<"LegalZoom", "Firstbase.io", "Rocket Lawyer", "Clerky">>,
     payroll |-> <<"Gusto", "Wave Payroll", "OnPay", "Rippling">>,
     accounting |-> <<"Brex", "QuickBooks Online", "Xero", "Sage Intacct",
                      "Wave Accounting">>,
     marketing |-> <<"HubSpot Marketing", "Canva", "Google Analytics",
                     "Mailchimp or Klaviyo", "Buffer or Hootsuite">>,
     hr_ai |-> <<"AI-powered HR tools">>]

\* The elements of a list, as a set.
Range(xs) == {xs[i] : i \in DOMAIN xs}

RECURSIVE Reverse(_)
Reverse(xs) == IF xs = <<>> THEN <<>> ELSE Reverse(Tail(xs)) \o <<Head(xs)>>

\* list(d.keys()).  A dict of the model keeps no insertion order: Keys lists
\* the keys from the greatest to the least, and KeyOrders is every order in
\* which the keys can have been inserted.
Keys(d) == Reverse(SortedSeq(DOMAIN d))
KeyOrders(d) ==
    {ks \in [1..Cardinality(DOMAIN d) -> DOMAIN d] : Range(ks) = DOMAIN d}

RECURSIVE Dedupe(_)
\* The list without the later occurrences of an element.
Dedupe(xs) ==
    IF xs = <<>> THEN <<>>
    ELSE LET front == Dedupe(SubSeq(xs, 1, Len(xs) - 1))
             last == xs[Len(xs)]
         IN  IF last \in Range(front) THEN front ELSE front \o <<last>>

\* The year list without the sort: the keys in the order they are met.
YearsOfKeysUnsorted(rk, ck, mk) == Dedupe(rk \o ck \o mk)

\* sorted(set(list(rk) + list(ck) + list(mk)))
YearsOfKeys(rk, ck, mk) == SortedSeq(Range(rk \o ck \o mk))

\* The years build_plan makes a row for.
PlanYears(a) ==
    YearsOfKeys(Keys(a.revenue_targets), Keys(a.customer_targets),
                Keys(a.margin_targets))

\* One entry of targets_summary: a dict literal, so a later key replaces an
\* earlier one.
TargetRow(a, year) ==
    [k \in CoreKeys \cup DOMAIN a.other_targets |->
        IF k \in DOMAIN a.other_targets THEN Get(a.other_targets[k], year)
        ELSE IF k = "year" THEN PyInt(year)
        ELSE IF k = "revenue" THEN Get(a.revenue_targets, year)
        ELSE IF k = "customers" THEN Get(a.customer_targets, year)
        ELSE Get(a.margin_targets, year)]

TargetsSummary(a) ==
    [i \in DOMAIN PlanYears(a) |-> TargetRow(a, PlanYears(a)[i])]

build_plan(a) ==
    [executive_summary |->
        a.company_name \o " aims to realise its vision of " \o a.vision
        \o " by executing a three-year plan built around SMART goals, clear milestones and disciplined measurement.",
     company_profile |-> [name |-> a.company_name, mission |-> a.mission,
                          vision |-> a.vision, core_values |-> a.core_values],
     baseline_metrics |-> a.baseline_metrics,
     strategic_targets |-> TargetsSummary(a),
     winning_moves |-> [revenue_moves |-> a.revenue_moves,
                        profit_moves |-> a.profit_moves],
     swot_analysis |-> a.swot,
     milestones |->
        LET ms == generate_milestones(a, DefaultCadence)
        IN  [k \in DOMAIN ms |->
                [date |-> IsoFormat(ms[k].date), description |-> ms[k].name]],
     recommended_kpis |-> suggest_kpis,
     service_recommendations |-> recommend_services]

(***************************************************************************)
(* generate_narrative.  The value returned is `text'; `paragraphs' and     *)
(* `lines' (the list `lines' of every row, before it is joined) are kept   *)
(* beside it so that properties can speak about the parts of the text.     *)
(* When the call raises, `composed' counts the paragraphs that had been    *)
(* formatted before the exception.                                         *)
(***************************************************************************)
NarrativeText(paragraphs, lines) ==
    [status |-> "ok", exc |-> "", composed |-> Len(paragraphs),
     text |-> Join("\n\n", paragraphs), paragraphs |-> paragraphs,
     lines |-> lines]
NarrativeRaises(exc, composed) ==
    [status |-> "raise", exc |-> exc, composed |-> composed,
     text |-> "", paragraphs |-> <<>>, lines |-> <<>>]

\* The first element of `lines': one f-string, its fields evaluated left to
\* right.
MainClause(t) ==
    LET r == FormatGrouped(t["revenue"])
        g == FormatPercent(t["gross_margin"])
    IN  IF ~r.ok THEN r
        ELSE IF ~g.ok THEN g
        ELSE Ok("In " \o FormatPlain(t["year"]).s \o ", we aim to generate $"
                \o r.s \o " in revenue and serve "
                \o FormatPlain(t["customers"]).s
                \o " customers, achieving a gross margin of " \o g.s \o "%")

\* The clause appended for one extra metric of a row.
MetricClause(metric, value) ==
    LET v == FormatGrouped(value)
    IN  IF ~v.ok THEN v
        ELSE Ok("with " \o MetricLabel(metric) \o " of $" \o v.s)

\* The keys of a row that the inner loop does not skip, in items() order.
ExtraMetrics(t) ==
    SelectSeq(MetricOrder, LAMBDA m : m \in DOMAIN t /\ m \notin CoreKeys)

RECURSIVE ExtraClauses(_, _)
\* The clauses of the extra metrics `ms' of row t: [ok, exc, lines].
ExtraClauses(t, ms) ==
    IF ms = <<>> THEN [ok |-> TRUE, exc |-> "", lines |-> <<>>]
    ELSE LET c == MetricClause(Head(ms), t[Head(ms)])
             rest == ExtraClauses(t, Tail(ms))
         IN  IF ~c.ok THEN [ok |-> FALSE, exc |-> c.exc, lines |-> <<>>]
             ELSE IF ~rest.ok THEN rest
             ELSE [ok |-> TRUE, exc |-> "", lines |-> <<c.s>> \o rest.lines]

\* The list `lines' of one row.
RowLines(t) ==
    LET main == MainClause(t)
        extra == ExtraClauses(t, ExtraMetrics(t))
    IN  IF ~main.ok THEN [ok |-> FALSE, exc |-> main.exc, lines |-> <<>>]
        ELSE IF ~extra.ok THEN extra
        ELSE [ok |-> TRUE, exc |-> "", lines |-> <<main.s>> \o extra.lines]

RECURSIVE TargetsLines(_)
\* The loop over plan["strategic_targets"]: [ok, exc, lines], lines[i] being
\* the list `lines' of row i.
TargetsLines(rows) ==
    IF rows = <<>> THEN [ok |-> TRUE, exc |-> "", lines |-> <<>>]
    ELSE LET first == RowLines(Head(rows))
             rest == TargetsLines(Tail(rows))
         IN  IF ~first.ok THEN first
             ELSE IF ~rest.ok THEN rest
             ELSE [ok |-> TRUE, exc |-> "", lines |-> <<first.lines>> \o rest.lines]

SwotList(swot, key) == swot[key]

generate_narrative(a) ==
    LET plan == build_plan(a)
        intro ==
            a.company_name \o " exists to " \o a.mission \o ".  Our vision is to "
            \o a.vision \o ". To achieve this ambition, we have created a three-year strategic plan grounded in our core values: "
            \o Join(", ", a.core_values) \o "."
        tl == TargetsLines(plan.strategic_targets)
        targets_lines == [i \in DOMAIN tl.lines |-> Join(" ", tl.lines[i]) \o "."]
        targets_paragraph == Join(" ", targets_lines)
        moves_paragraph ==
            "To realise these goals, we will pursue a focused set of Winning Moves. On the revenue side we will: "
            \o Join("; ", a.revenue_moves)
            \o ". On the profitability side we will: "
            \o Join("; ", a.profit_moves) \o "."
        swot_paragraph ==
            "Our SWOT analysis reveals that our strengths-"
            \o Join(", ", SwotList(a.swot, "strengths"))
            \o "-position us well to capitalise on opportunities such as "
            \o Join(", ", SwotList(a.swot, "opportunities"))
            \o ".  However, we must mitigate weaknesses like "
            \o Join(", ", SwotList(a.swot, "weaknesses"))
            \o " and guard against threats such as "
            \o Join(", ", SwotList(a.swot, "threats")) \o "."
        execution_paragraph ==
            "We will execute against clear milestones every six months and monitor key performance indicators across finance, customers, marketing, operations and HR. Our plan leverages best-in-class service providers for legal, accounting, payroll, marketing and AI-enabled HR to build a strong operational foundation."
        closing ==
            "By aligning our team around this roadmap and measuring our progress relentlessly, "
            \o a.company_name
            \o " will be well positioned to achieve its three-year objectives and move closer to its long-term vision."
    IN  IF ~tl.ok THEN NarrativeRaises(tl.exc, 1)
        ELSE IF a.swot = None THEN NarrativeRaises("AttributeError", 3)
        ELSE NarrativeText(<<intro, targets_paragraph, moves_paragraph,
                             swot_paragraph, execution_paragraph, closing>>,
                           tl.lines)

(***************************************************************************)
(* State.                                                                  *)
(***************************************************************************)
VARIABLES
    agent,      \* the StrategicPlanningAgent instance
    stage,      \* the last method the caller has called on it
    plan,       \* what the last build_plan() returned (None before)
    narrative,  \* the outcome of the last generate_narrative() (None before)
    cycle,      \* the number of the request cycle that uses the agent
    twin,       \* a new agent given the calls of the current cycle, and its results
    request,    \* the request the handler served last (None before)
    response,   \* the response it returned (None before)
    pc,         \* concurrent cycles: the next step of each
    result,     \* concurrent cycles: the plan and narrative each was returned
    cadence,    \* the months_per_milestone of the last generate_milestones call
    milestones, \* what that call returned (empty before the first call)
    heap,       \* the list and dict objects that the agent or a plan refers to
    refs,       \* which object each field of the agent and of the plan refers to
    ncalls      \* the number of calls and assignments made on the agent

vars == <<agent, stage, plan, narrative, cycle, twin, request, response, pc, result,
         cadence, milestones, heap, refs, ncalls>>

\* The variables of the sequential reuse, of the handler, of the
\* concurrent cycles, of the milestone calls and of the object references.
reuseVars == <<cycle, twin>>
apiVars == <<request, response>>
concVars == <<pc, result>>
msVars == <<cadence, milestones>>
objVars == <<heap, refs, ncalls>>

(***************************************************************************)
(* Inputs.                                                                 *)
(***************************************************************************)
TargetVals == {PyInt(0), PyInt(1500), PyStr("lots")}

\* An entry of a target mapping: the mapping it belongs to and the year.
Slots ==
    ({"core"} \X {"revenue", "customers", "margin"} \X Years)
    \cup ({"other"} \X MetricNames \X Years)

\* The entries of one set_targets call: at most MaxEntries of them.
Fills ==
    UNION {[S -> TargetVals] :
             S \in {T \in SUBSET Slots : Cardinality(T) <= MaxEntries}}

\* The mapping year -> value that the entries `fill' give to one mapping.
MapOf(fill, kind, name) ==
    [y \in {z \in Years : <<kind, name, z>> \in DOMAIN fill} |->
        fill[<<kind, name, y>>]]

\* The metric names that have an entry in `fill'.
FilledMetrics(fill) == {m \in MetricNames : DOMAIN MapOf(fill, "other", m) # {}}

\* The other_targets argument: the metrics `names', each with its entries.
OtherOf(fill, names) == [m \in names |-> MapOf(fill, "other", m)]

MoveInputs == {<<<<"Launch X">>, <<"Cut costs">>>>}

SwotInputs ==
    {[strengths |-> <<"brand">>, weaknesses |-> <<"small team">>,
      opportunities |-> <<"market growth">>, threats |-> <<"competition">>]}

Profiles ==
    {[company_name |-> "Acme", mission |-> "build widgets",
      vision |-> "best widgets", core_values |-> <<"Integrity">>,
      baseline_metrics |-> [k \in {"customers"} |-> PyInt(100)]]}

AgentOf(p, start) ==
    NewAgent(p.company_name, p.mission, p.vision, p.core_values,
             p.baseline_metrics, start)

(***************************************************************************)
(* The mutating methods, as functions from the agent to the agent.         *)
(***************************************************************************)
\* `if other_targets:' is false for None and for the empty dict.
Truthy(other) == other # None /\ DOMAIN other # {}

set_targets(a, revenue, customers, margin, other) ==
    [a EXCEPT !.revenue_targets = revenue,
              !.customer_targets = customers,
              !.margin_targets = margin,
              !.other_targets = IF Truthy(other) THEN other ELSE @]

identify_winning_moves(a, revenue_moves, profit_moves) ==
    [a EXCEPT !.revenue_moves = revenue_moves, !.profit_moves = profit_moves]

create_swot(a, strengths, weaknesses, opportunities, threats) ==
    [a EXCEPT !.swot = [strengths |-> strengths, weaknesses |-> weaknesses,
                        opportunities |-> opportunities, threats |-> threats]]

(***************************************************************************)
(* One caller using a new agent as the module's example does: construct,   *)
(* set_targets, identify_winning_moves, create_swot, build_plan,           *)
(* generate_narrative, each step optional.                                 *)
(***************************************************************************)
StageRank(s) ==
    CASE s = "new" -> 0 [] s = "targets" -> 1 [] s = "moves" -> 2
      [] s = "swot" -> 3 [] s = "plan" -> 4 [] s = "narrative" -> 5

Init ==
    /\ agent \in {AgentOf(p, FirstYear) : p \in Profiles}
    /\ stage = "new"
    /\ plan = None
    /\ narrative = None
    /\ cycle = 1
    /\ twin = None
    /\ request = None
    /\ response = None
    /\ pc = <<>>
    /\ result = <<>>
    /\ cadence = DefaultCadence
    /\ milestones = <<>>
    /\ heap = <<>>
    /\ refs = None
    /\ ncalls = 0

SetTargets ==
    /\ StageRank(stage) < 1
    /\ \E fill \in Fills :
       \E other \in {None} \cup {OtherOf(fill, names) :
                        names \in {N \in SUBSET MetricNames : FilledMetrics(fill) \subseteq N}} :
          /\ other = None => FilledMetrics(fill) = {}
          /\ agent' = set_targets(agent, MapOf(fill, "core", "revenue"),
                                  MapOf(fill, "core", "customers"),
                                  MapOf(fill, "core", "margin"), other)
    /\ stage' = "targets"
    /\ UNCHANGED <<plan, narrative, reuseVars, apiVars, concVars, msVars, objVars>>

IdentifyWinningMoves ==
    /\ StageRank(stage) < 2
    /\ \E mv \in MoveInputs : agent' = identify_winning_moves(agent, mv[1], mv[2])
    /\ stage' = "moves"
    /\ UNCHANGED <<plan, narrative, reuseVars, apiVars, concVars, msVars, objVars>>

CreateSwot ==
    /\ StageRank(stage) < 3
    /\ \E sw \in SwotInputs :
          agent' = create_swot(agent, sw.strengths, sw.weaknesses,
                               sw.opportunities, sw.threats)
    /\ stage' = "swot"
    /\ UNCHANGED <<plan, narrative, reuseVars, apiVars, concVars, msVars, objVars>>

BuildPlan ==
    /\ StageRank(stage) < 4
    /\ plan' = build_plan(agent)
    /\ stage' = "plan"
    /\ UNCHANGED <<agent, narrative, reuseVars, apiVars, concVars, msVars, objVars>>

GenerateNarrative ==
    /\ StageRank(stage) < 5
    /\ narrative' = generate_narrative(agent)
    /\ stage' = "narrative"
    /\ UNCHANGED <<agent, plan, reuseVars, apiVars, concVars, msVars, objVars>>

Next ==
    \/ SetTargets
    \/ IdentifyWinningMoves
    \/ CreateSwot
    \/ BuildPlan
    \/ GenerateNarrative

Spec == Init /\ [][Next]_vars

(***************************************************************************)
(* Properties of the target table and of the narrative, under Spec.  In    *)
(* Spec the agent is not changed after build_plan or generate_narrative,   *)
(* so `plan' and `narrative' are the results for the agent as it stands.   *)
(***************************************************************************)
Built == plan # None
Narrated == narrative # None

\* The years that occur in any of the four target mappings.
AllTargetYears(a) ==
    DOMAIN a.revenue_targets \cup DOMAIN a.customer_targets
    \cup DOMAIN a.margin_targets
    \cup UNION {DOMAIN a.other_targets[m] : m \in DOMAIN a.other_targets}

\* The years of the revenue, customer and margin mappings, least first.
AscendingCoreYears(a) ==
    SortedSeq(DOMAIN a.revenue_targets \cup DOMAIN a.customer_targets
              \cup DOMAIN a.margin_targets)

RowYears(p) == [i \in DOMAIN p.strategic_targets |-> p.strategic_targets[i]["year"]]

\* C1: the years of strategic_targets are the union of the years of the
\* revenue, customer, margin and extra-metric mappings, ascending, each once;
\* a year that only an extra metric has gets a row too.
YearsAreUnionOfAllMappings ==
    Built =>
        RowYears(plan) =
            [i \in DOMAIN SortedSeq(AllTargetYears(agent)) |->
                PyInt(SortedSeq(AllTargetYears(agent))[i])]

\* C2: generate_narrative() on an agent whose swot is still None fails with
\* MissingRequiredSection, raised before any paragraph is formatted.
MissingSwotRaisesTypedErrorFirst ==
    (Narrated /\ agent.swot = None) =>
        /\ narrative.status = "raise"
        /\ narrative.exc = "MissingRequiredSection"
        /\ narrative.composed = 0

\* The rows in which revenue, customers and gross margin are numbers.
CoreNumeric(t) ==
    /\ IsNumeric(t["revenue"])
    /\ IsNumeric(t["customers"])
    /\ IsNumeric(t["gross_margin"])

\* The extra metrics of the agent that are not keys of the row already.
OwnMetrics(a) == DOMAIN a.other_targets \ CoreKeys

\* C3: with the SWOT supplied, no extra metric named like a key of the row,
\* and revenue, customers and margin numeric in every row, the narrative
\* completes, and the sentence of a row holds the clause
\* "with {metric} of ${value}" of an extra metric exactly when the metric has
\* a value for the year of the row.
AbsentExtraMetricIsSkipped ==
    (/\ Narrated
     /\ agent.swot # None
     /\ DOMAIN agent.other_targets \cap CoreKeys = {}
     /\ \A i \in DOMAIN TargetsSummary(agent) : CoreNumeric(TargetsSummary(agent)[i])
     /\ \A m \in OwnMetrics(agent) : \A y \in DOMAIN agent.other_targets[m] :
            IsNumeric(agent.other_targets[m][y]))
    =>
        /\ narrative.status = "ok"
        /\ \A i \in DOMAIN TargetsSummary(agent) : \A m \in OwnMetrics(agent) :
              LET y == PlanYears(agent)[i]
                  has == y \in DOMAIN agent.other_targets[m]
                  clauses == {narrative.lines[i][k] : k \in 2..Len(narrative.lines[i])}
              IN  has <=> \E c \in clauses :
                             c = "with " \o MetricLabel(m) \o " of $"
                                 \o FormatGrouped(Get(agent.other_targets[m], y)).s

\* The main clause of a row whose customer count prints as "None".
NoneCustomersClause(t) ==
    "In " \o FormatPlain(t["year"]).s \o ", we aim to generate $"
    \o FormatGrouped(t["revenue"]).s
    \o " in revenue and serve None customers, achieving a gross margin of "
    \o FormatPercent(t["gross_margin"]).s \o "%"

\* C4: with the SWOT supplied and no extra metrics, a table whose values are
\* all numbers or absent still yields a narrative, and no sentence of it
\* prints a stand-in such as "None customers" for an absent value.
AbsentCoreMetricIsSkipped ==
    (/\ Narrated
     /\ agent.swot # None
     /\ DOMAIN agent.other_targets = {}
     /\ \A i \in DOMAIN TargetsSummary(agent) : \A k \in CoreKeys :
            TargetsSummary(agent)[i][k].t # "str")
    =>
        /\ narrative.status = "ok"
        /\ \A i \in DOMAIN TargetsSummary(agent) :
              narrative.lines[i][1] # NoneCustomersClause(TargetsSummary(agent)[i])

\* What a row must hold for a metric: the entry of its source mapping for
\* the year, None when there is none.
RowMirrors(a, t, y) ==
    /\ t["revenue"] = Get(a.revenue_targets, y)
    /\ t["customers"] = Get(a.customer_targets, y)
    /\ t["gross_margin"] = Get(a.margin_targets, y)
    /\ \A m \in DOMAIN a.other_targets : t[m] = Get(a.other_targets[m], y)

\* C5: every row holds, for revenue, customers, gross_margin and every extra
\* metric, exactly the entry of that metric's source mapping for the row's
\* year, and None (never 0) when the mapping has no entry.
RowsMirrorSourceMappings ==
    Built =>
        \A i \in DOMAIN plan.strategic_targets :
            RowMirrors(agent, plan.strategic_targets[i], PlanYears(agent)[i])

\* The same statement for agents none of whose extra metrics is named like
\* a key of the row: it holds.
RowsMirrorSourceMappingsWithoutKeyClash ==
    (Built /\ DOMAIN agent.other_targets \cap CoreKeys = {}) =>
        \A i \in DOMAIN plan.strategic_targets :
            RowMirrors(agent, plan.strategic_targets[i], PlanYears(agent)[i])

\* C9: a target value that is present but not numeric is rejected when the
\* plan is assembled: no plan that build_plan returns holds such a value.
NonNumericTargetRejected ==
    Built =>
        \A i \in DOMAIN plan.strategic_targets :
            \A k \in DOMAIN plan.strategic_targets[i] :
                plan.strategic_targets[i][k].t # "str"

\* The optional fields as the constructor leaves them.
NothingSupplied(a) ==
    /\ a.revenue_targets = EmptyDict /\ a.customer_targets = EmptyDict
    /\ a.margin_targets = EmptyDict /\ a.other_targets = EmptyDict
    /\ a.revenue_moves = <<>> /\ a.profit_moves = <<>>
    /\ a.swot = None

\* C10: build_plan() on an agent that was given no targets, moves or SWOT
\* returns empty strategic_targets, empty move lists and a swot_analysis that
\* is a container, not None; and four empty target mappings give no rows.
AbsentInputsDefaultToEmpty ==
    /\ (Built /\ NothingSupplied(agent)) =>
          /\ plan.strategic_targets = <<>>
          /\ plan.winning_moves.revenue_moves = <<>>
          /\ plan.winning_moves.profit_moves = <<>>
          /\ plan.swot_analysis # None
    /\ (Built /\ AllTargetYears(agent) = {}) => plan.strategic_targets = <<>>

\* C16: whatever other_targets holds, also extra metrics named like a key
\* of the row, every row has 'year' equal to the year it was built for and
\* 'revenue', 'customers', 'gross_margin' equal to the entries of the revenue,
\* customer and margin mappings for that year (None when absent): an extra
\* metric never overwrites one of the four.
ExtraMetricNeverOverwritesCoreField ==
    Built =>
        \A i \in DOMAIN plan.strategic_targets :
            LET t == plan.strategic_targets[i]
                y == AscendingCoreYears(agent)[i]
            IN  /\ t["year"] = PyInt(y)
                /\ t["revenue"] = Get(agent.revenue_targets, y)
                /\ t["customers"] = Get(agent.customer_targets, y)
                /\ t["gross_margin"] = Get(agent.margin_targets, y)

(***************************************************************************)
(* The request handler generate_plan of src/agent_api.py, on the agent     *)
(* that create_app constructs once.                                        *)
(***************************************************************************)
\* The agent of create_app: placeholders for the five required fields.
AppAgent(start) == NewAgent("", "", "", <<>>, EmptyDict, start)

\* The methods of StrategicPlanningAgent: the fewest and the most positional
\* arguments each accepts after self.
MethodArity ==
    [set_targets |-> <<3, 4>>, identify_winning_moves |-> <<2, 2>>,
     create_swot |-> <<4, 4>>, suggest_kpis |-> <<0, 0>>,
     generate_milestones |-> <<0, 1>>, recommend_services |-> <<0, 0>>,
     build_plan |-> <<0, 0>>, generate_narrative |-> <<0, 0>>]

\* What calling agent.<method> with nargs positional arguments raises ("" when
\* the call binds).
CallRaises(method, nargs) ==
    IF method \notin DOMAIN MethodArity THEN "AttributeError"
    ELSE IF nargs < MethodArity[method][1] \/ nargs > MethodArity[method][2]
         THEN "TypeError"
    ELSE ""

\* data.get(key, default)
DataGet(data, key, default) == IF key \in DOMAIN data THEN data[key] ELSE default

RequestKeys ==
    {"company_name", "mission", "vision", "core_values", "targets",
     "winning_moves", "swot", "baseline_metrics"}

YearTargets(rev, cust, margin) ==
    [revenue |-> PyInt(rev), customers |-> PyInt(cust), margin |-> PyFloat(margin)]

Payloads ==
    {[company_name |-> "Acme", mission |-> "build widgets",
      vision |-> "best widgets", core_values |-> <<"Integrity">>,
      targets |-> [year1 |-> YearTargets(1000000, 100, 200),
                   year2 |-> YearTargets(2000000, 200, 250),
                   year3 |-> YearTargets(3000000, 300, 300)],
      winning_moves |-> <<[description |-> "Launch X", owner |-> "CEO"]>>,
      swot |-> [strengths |-> <<"brand">>, weaknesses |-> <<"small team">>,
                opportunities |-> <<"market growth">>,
                threats |-> <<"competition">>],
      baseline_metrics |-> [k \in {"customers"} |-> PyInt(100)]],
     [company_name |-> "Globex", mission |-> "ship rockets",
      vision |-> "cheap orbit", core_values |-> <<"Speed", "Safety">>,
      targets |-> [year1 |-> YearTargets(500, 5, 100),
                   year2 |-> YearTargets(600, 6, 100),
                   year3 |-> YearTargets(700, 7, 100)],
      winning_moves |-> <<>>,
      swot |-> [strengths |-> <<"patents">>, weaknesses |-> <<>>,
                opportunities |-> <<>>, threats |-> <<>>],
      baseline_metrics |-> [k \in {"annual_revenue"} |-> PyInt(400)]]}

\* The JSON bodies of the model: a payload with all its keys, with one key
\* missing, or with none.
KeySets == {RequestKeys, {}} \cup {RequestKeys \ {k} : k \in RequestKeys}
Requests ==
    {[is_json |-> j, data |-> [k \in ks |-> p[k]]] :
        j \in BOOLEAN, p \in Payloads, ks \in KeySets}

\* The list `targets' the handler builds from data["targets"].
HandlerTargets(data) ==
    LET targets_input == DataGet(data, "targets", EmptyDict)
        keys == <<"year1", "year2", "year3">>
    IN  [i \in 1..3 |->
            LET year_data == DataGet(targets_input, keys[i], EmptyDict)
            IN  [revenue_target |-> Get(year_data, "revenue"),
                 customer_target |-> Get(year_data, "customers"),
                 margin_target |-> Get(year_data, "margin")]]

\* any([strengths, weaknesses, opportunities, threats])
AnySwot(data) ==
    LET swot == DataGet(data, "swot", EmptyDict)
    IN  \E k \in {"strengths", "weaknesses", "opportunities", "threats"} :
            DataGet(swot, k, <<>>) # <<>>

\* The method calls of the try block, in order: <<method, positional arguments>>.
HandlerCalls(data) ==
    <<<<"set_targets", 1>>>>
    \o (IF DataGet(data, "winning_moves", <<>>) # <<>>
        THEN <<<<"add_winning_moves", 1>>>> ELSE <<>>)
    \o (IF AnySwot(data) THEN <<<<"add_swot", 4>>>> ELSE <<>>)
    \o <<<<"assemble_plan", 1>>, <<"generate_narrative", 1>>>>

RECURSIVE FirstRaise(_)
\* The exception of the first call of `calls' that raises ("" if none does).
FirstRaise(calls) ==
    IF calls = <<>> THEN ""
    ELSE IF CallRaises(Head(calls)[1], Head(calls)[2]) # ""
         THEN CallRaises(Head(calls)[1], Head(calls)[2])
    ELSE FirstRaise(Tail(calls))

ErrorResponse(code, message) ==
    [status |-> code, body |-> [k \in {"error"} |-> message]]
\* jsonify({"plan": plan, "narrative": narrative})
PlanResponse(p, text) ==
    [status |-> 200,
     body |-> [k \in {"plan", "narrative"} |-> IF k = "plan" THEN p ELSE PyStr(text)]]

\* The assignments of lines 123-129.
AssignProfile(a, data) ==
    [a EXCEPT !.company_name = DataGet(data, "company_name", "Your Company"),
              !.mission = DataGet(data, "mission", ""),
              !.vision = DataGet(data, "vision", ""),
              !.core_values = DataGet(data, "core_values", <<>>),
              !.baseline_metrics = DataGet(data, "baseline_metrics", EmptyDict)]

\* The handler: the agent it leaves and the response it returns.  Every
\* path of the try block goes through agent.set_targets(targets), a call
\* with one positional argument, so the last branch is never taken with the
\* class as it is.
generate_plan(a, req) ==
    IF ~req.is_json
    THEN [agent |-> a, response |-> ErrorResponse(400, "Request must be JSON")]
    ELSE LET a1 == AssignProfile(a, req.data)
             exc == FirstRaise(HandlerCalls(req.data))
         IN  IF exc # ""
             THEN [agent |-> a1,
                   response |-> ErrorResponse(500, "Failed to generate plan: " \o exc)]
             ELSE [agent |-> a1,
                   response |-> PlanResponse(build_plan(a1), generate_narrative(a1).text)]

ApiInit ==
    /\ agent = AppAgent(FirstYear)
    /\ stage = "new"
    /\ plan = None
    /\ narrative = None
    /\ cycle = 1
    /\ twin = None
    /\ request = None
    /\ response = None
    /\ pc = <<>>
    /\ result = <<>>
    /\ cadence = DefaultCadence
    /\ milestones = <<>>
    /\ heap = <<>>
    /\ refs = None
    /\ ncalls = 0

GeneratePlan ==
    \E req \in Requests :
        /\ agent' = generate_plan(agent, req).agent
        /\ response' = generate_plan(agent, req).response
        /\ request' = req
        /\ UNCHANGED <<stage, plan, narrative, reuseVars, concVars, msVars, objVars>>

ApiNext == GeneratePlan

SpecApi == ApiInit /\ [][ApiNext]_vars

\* A request with every field of the inbound record and a non-empty SWOT.
WellFormed(req) ==
    /\ req.is_json
    /\ DOMAIN req.data = RequestKeys
    /\ AnySwot(req.data)

\* C6: a well-formed request gets the success record, whose fields are
\* exactly plan and narrative, and not an error record.
WellFormedRequestSucceeds ==
    (request # None /\ WellFormed(request)) =>
        /\ response.status = 200
        /\ DOMAIN response.body = {"plan", "narrative"}

\* C17: a request that ends in the error response leaves the shared agent
\* exactly as it was before the request: profile fields, baseline metrics,
\* target mappings, moves and SWOT.
ErrorResponseLeavesAgentUnchanged ==
    [][(response' # None /\ response'.status # 200) => agent' = agent]_vars

\* The same statement for a request that is refused as not JSON: it holds.
NotJsonLeavesAgentUnchanged ==
    [][(response' # None /\ response'.status = 400) => agent' = agent]_vars

(***************************************************************************)
(* One agent reused by request cycles that follow one another.  A cycle    *)
(* assigns the profile fields, calls set_targets and                       *)
(* identify_winning_moves, may call create_swot, and ends with build_plan  *)
(* and generate_narrative.  `twin' is an agent constructed when the cycle  *)
(* starts and given the same calls.                                        *)
(***************************************************************************)
MaxCycles == 2
MaxReuseEntries == 1

ReuseFills ==
    UNION {[S -> TargetVals] :
             S \in {T \in SUBSET Slots : Cardinality(T) <= MaxReuseEntries}}

ReuseProfiles ==
    {[k \in {"company_name", "mission", "vision", "core_values",
             "baseline_metrics"} |-> p[k]] : p \in Payloads}

NewTwin(start) == [agent |-> AppAgent(start), plan |-> None, narrative |-> None]

ReuseInit ==
    /\ agent = AppAgent(FirstYear)
    /\ twin = NewTwin(FirstYear)
    /\ stage = "new"
    /\ plan = None
    /\ narrative = None
    /\ cycle = 1
    /\ request = None
    /\ response = None
    /\ pc = <<>>
    /\ result = <<>>
    /\ cadence = DefaultCadence
    /\ milestones = <<>>
    /\ heap = <<>>
    /\ refs = None
    /\ ncalls = 0

CycleProfile ==
    /\ stage = "new"
    /\ \E p \in ReuseProfiles :
          /\ agent' = AssignProfile(agent, p)
          /\ twin' = [twin EXCEPT !.agent = AssignProfile(@, p)]
    /\ stage' = "profile"
    /\ UNCHANGED <<plan, narrative, cycle, apiVars, concVars, msVars, objVars>>

CycleSetTargets ==
    /\ stage = "profile"
    /\ \E fill \in ReuseFills :
       \E other \in {None} \cup {OtherOf(fill, names) :
                        names \in {N \in SUBSET MetricNames : FilledMetrics(fill) \subseteq N}} :
          /\ other = None => FilledMetrics(fill) = {}
          /\ agent' = set_targets(agent, MapOf(fill, "core", "revenue"),
                                  MapOf(fill, "core", "customers"),
                                  MapOf(fill, "core", "margin"), other)
          /\ twin' = [twin EXCEPT !.agent =
                         set_targets(@, MapOf(fill, "core", "revenue"),
                                     MapOf(fill, "core", "customers"),
                                     MapOf(fill, "core", "margin"), other)]
    /\ stage' = "targets"
    /\ UNCHANGED <<plan, narrative, cycle, apiVars, concVars, msVars, objVars>>

CycleMoves ==
    /\ stage = "targets"
    /\ \E mv \in MoveInputs :
          /\ agent' = identify_winning_moves(agent, mv[1], mv[2])
          /\ twin' = [twin EXCEPT !.agent = identify_winning_moves(@, mv[1], mv[2])]
    /\ stage' = "moves"
    /\ UNCHANGED <<plan, narrative, cycle, apiVars, concVars, msVars, objVars>>

CycleSwot ==
    /\ stage = "moves"
    /\ \E sw \in SwotInputs :
          /\ agent' = create_swot(agent, sw.strengths, sw.weaknesses,
                                  sw.opportunities, sw.threats)
          /\ twin' = [twin EXCEPT !.agent =
                         create_swot(@, sw.strengths, sw.weaknesses,
                                     sw.opportunities, sw.threats)]
    /\ stage' = "swot"
    /\ UNCHANGED <<plan, narrative, cycle, apiVars, concVars, msVars, objVars>>

CycleBuildPlan ==
    /\ stage \in {"moves", "swot"}
    /\ plan' = build_plan(agent)
    /\ twin' = [twin EXCEPT !.plan = build_plan(twin.agent)]
    /\ stage' = "plan"
    /\ UNCHANGED <<agent, narrative, cycle, apiVars, concVars, msVars, objVars>>

CycleNarrative ==
    /\ stage \in {"moves", "swot", "plan"}
    /\ narrative' = generate_narrative(agent)
    /\ twin' = [twin EXCEPT !.narrative = generate_narrative(twin.agent)]
    /\ stage' = "narrative"
    /\ UNCHANGED <<agent, plan, cycle, apiVars, concVars, msVars, objVars>>

\* The next cycle starts on the agent as the last one left it.
NextCycle ==
    /\ cycle < MaxCycles
    /\ cycle' = cycle + 1
    /\ twin' = NewTwin(agent.start_year)
    /\ stage' = "new"
    /\ plan' = None
    /\ narrative' = None
    /\ UNCHANGED <<agent, apiVars, concVars, msVars, objVars>>

ReuseNext ==
    \/ CycleProfile
    \/ CycleSetTargets
    \/ CycleMoves
    \/ CycleSwot
    \/ CycleBuildPlan
    \/ CycleNarrative
    \/ NextCycle

SpecReuse == ReuseInit /\ [][ReuseNext]_vars

\* C7: what a cycle gets from the reused agent is what it would get from a
\* newly constructed one: the same plan, and the same narrative or failure.
CycleSeesOnlyItsOwnInputs ==
    /\ plan # None => plan = twin.plan
    /\ narrative # None => narrative = twin.narrative

\* The same statement for the first cycle on an agent: it holds.
FirstCycleSeesOnlyItsOwnInputs ==
    cycle = 1 => CycleSeesOnlyItsOwnInputs

(***************************************************************************)
(* Request cycles that run at the same time on the one agent of            *)
(* create_app.  A cycle is the sequence of steps of lines 122-141 of the   *)
(* handler, made with the methods the agent has; one step is one           *)
(* assignment to a profile field or one method call.                       *)
(***************************************************************************)
NumConcurrent == 2
ConcCycles == 1..NumConcurrent

Steps ==
    <<"company_name", "mission", "vision", "core_values", "baseline_metrics",
      "set_targets", "identify_winning_moves", "create_swot", "build_plan",
      "generate_narrative", "done">>
ProfileSteps == {Steps[i] : i \in 1..5}

StepAfter(st) == Steps[(CHOOSE i \in 1..Len(Steps) : Steps[i] = st) + 1]

\* What cycle c supplies: every value names the cycle.
CycleInput(c) ==
    [company_name |-> "Company" \o ToString(c),
     mission |-> "mission" \o ToString(c),
     vision |-> "vision" \o ToString(c),
     core_values |-> <<"value" \o ToString(c)>>,
     baseline_metrics |-> [k \in {"customers"} |-> PyInt(c)],
     revenue_targets |-> [y \in {FirstYear} |-> PyInt(1000 * c)],
     customer_targets |-> [y \in {FirstYear} |-> PyInt(10 * c)],
     margin_targets |-> [y \in {FirstYear} |-> PyInt(c)],
     other_targets |-> [m \in {"net_profit"} |-> [y \in {FirstYear} |-> PyInt(100 * c)]],
     revenue_moves |-> <<"grow" \o ToString(c)>>,
     profit_moves |-> <<"save" \o ToString(c)>>,
     swot |-> [strengths |-> <<"strength" \o ToString(c)>>,
               weaknesses |-> <<"weakness" \o ToString(c)>>,
               opportunities |-> <<"opportunity" \o ToString(c)>>,
               threats |-> <<"threat" \o ToString(c)>>]]

NoResult == [plan |-> None, narrative |-> None]

ConcInit ==
    /\ agent = AppAgent(FirstYear)
    /\ pc = [c \in ConcCycles |-> Steps[1]]
    /\ result = [c \in ConcCycles |-> NoResult]
    /\ stage = "new"
    /\ plan = None
    /\ narrative = None
    /\ cycle = 1
    /\ twin = None
    /\ request = None
    /\ response = None
    /\ cadence = DefaultCadence
    /\ milestones = <<>>
    /\ heap = <<>>
    /\ refs = None
    /\ ncalls = 0

Advance(c) == pc' = [pc EXCEPT ![c] = StepAfter(pc[c])]

\* agent.<field> = <the value of the request>, lines 123-129
ConcAssign(c) ==
    /\ pc[c] \in ProfileSteps
    /\ agent' = [agent EXCEPT ![pc[c]] = CycleInput(c)[pc[c]]]
    /\ Advance(c)
    /\ UNCHANGED <<result, stage, plan, narrative, reuseVars, apiVars, msVars, objVars>>

ConcSetTargets(c) ==
    /\ pc[c] = "set_targets"
    /\ agent' = set_targets(agent, CycleInput(c).revenue_targets,
                            CycleInput(c).customer_targets,
                            CycleInput(c).margin_targets,
                            CycleInput(c).other_targets)
    /\ Advance(c)
    /\ UNCHANGED <<result, stage, plan, narrative, reuseVars, apiVars, msVars, objVars>>

ConcMoves(c) ==
    /\ pc[c] = "identify_winning_moves"
    /\ agent' = identify_winning_moves(agent, CycleInput(c).revenue_moves,
                                       CycleInput(c).profit_moves)
    /\ Advance(c)
    /\ UNCHANGED <<result, stage, plan, narrative, reuseVars, apiVars, msVars, objVars>>

ConcSwot(c) ==
    /\ pc[c] = "create_swot"
    /\ agent' = create_swot(agent, CycleInput(c).swot.strengths,
                            CycleInput(c).swot.weaknesses,
                            CycleInput(c).swot.opportunities,
                            CycleInput(c).swot.threats)
    /\ Advance(c)
    /\ UNCHANGED <<result, stage, plan, narrative, reuseVars, apiVars, msVars, objVars>>

ConcBuildPlan(c) ==
    /\ pc[c] = "build_plan"
    /\ result' = [result EXCEPT ![c].plan = build_plan(agent)]
    /\ Advance(c)
    /\ UNCHANGED <<agent, stage, plan, narrative, reuseVars, apiVars, msVars, objVars>>

ConcNarrative(c) ==
    /\ pc[c] = "generate_narrative"
    /\ result' = [result EXCEPT ![c].narrative = generate_narrative(agent)]
    /\ Advance(c)
    /\ UNCHANGED <<agent, stage, plan, narrative, reuseVars, apiVars, msVars, objVars>>

ConcNext ==
    \E c \in ConcCycles :
        \/ ConcAssign(c)
        \/ ConcSetTargets(c)
        \/ ConcMoves(c)
        \/ ConcSwot(c)
        \/ ConcBuildPlan(c)
        \/ ConcNarrative(c)

SpecConc == ConcInit /\ [][ConcNext]_vars

\* The agent after the steps of cycle c alone.
SoloAgent(c) ==
    LET i == CycleInput(c)
        a1 == [AppAgent(FirstYear) EXCEPT
                  !.company_name = i.company_name, !.mission = i.mission,
                  !.vision = i.vision, !.core_values = i.core_values,
                  !.baseline_metrics = i.baseline_metrics]
        a2 == set_targets(a1, i.revenue_targets, i.customer_targets,
                          i.margin_targets, i.other_targets)
        a3 == identify_winning_moves(a2, i.revenue_moves, i.profit_moves)
    IN  create_swot(a3, i.swot.strengths, i.swot.weaknesses,
                    i.swot.opportunities, i.swot.threats)

\* C8: however the steps of concurrent cycles interleave, the plan and the
\* narrative a cycle is returned are made of the values of that cycle only.
ConcurrentCyclesAreIsolated ==
    \A c \in ConcCycles :
        /\ result[c].plan # None => result[c].plan = build_plan(SoloAgent(c))
        /\ result[c].narrative # None =>
              result[c].narrative = generate_narrative(SoloAgent(c))

\* A cycle whose steps no other cycle's step falls between: isolated.
AloneCycleIsIsolated ==
    \A c \in ConcCycles :
        (\A d \in ConcCycles \ {c} : pc[d] = Steps[1]) =>
            /\ result[c].plan # None => result[c].plan = build_plan(SoloAgent(c))
            /\ result[c].narrative # None =>
                  result[c].narrative = generate_narrative(SoloAgent(c))

(***************************************************************************)
(* generate_milestones on agents of different start years, called with     *)
(* and without the months_per_milestone argument.                          *)
(***************************************************************************)
MinStartYear == 2023
MaxStartYear == 2028
MaxCadence == 37

\* The start years of the model: a window that holds leap years, and years
\* around the century rule.
StartYears == (MinStartYear .. MaxStartYear) \cup {2000, 2098, 2100}
Cadences == 1 .. MaxCadence

MilestonesInit ==
    /\ agent \in {AgentOf(p, y) : p \in Profiles, y \in StartYears}
    /\ cadence = DefaultCadence
    /\ milestones = <<>>
    /\ stage = "new"
    /\ plan = None
    /\ narrative = None
    /\ cycle = 1
    /\ twin = None
    /\ request = None
    /\ response = None
    /\ pc = <<>>
    /\ result = <<>>
    /\ heap = <<>>
    /\ refs = None
    /\ ncalls = 0

\* agent.generate_milestones(m)
GenerateMilestones ==
    /\ \E m \in Cadences :
          /\ cadence' = m
          /\ milestones' = generate_milestones(agent, m)
    /\ UNCHANGED <<agent, stage, plan, narrative, reuseVars, apiVars, concVars, objVars>>

\* agent.generate_milestones()
GenerateMilestonesDefault ==
    /\ cadence' = DefaultCadence
    /\ milestones' = generate_milestones(agent, DefaultCadence)
    /\ UNCHANGED <<agent, stage, plan, narrative, reuseVars, apiVars, concVars, objVars>>

MilestonesNext ==
    \/ GenerateMilestones
    \/ GenerateMilestonesDefault

SpecMilestones == MilestonesInit /\ [][MilestonesNext]_vars

(***************************************************************************)
(* Properties of the milestones, under SpecMilestones.                     *)
(***************************************************************************)
MilestonesCalled == milestones # <<>>

\* The label of milestone n in year `offset' of the plan.
MilestoneLabel(n, offset) ==
    "Milestone " \o ToString(n) \o " - Year " \o ToString(offset)

\* A <<year, month, day>> that is a date of the calendar.
ValidDate(d) ==
    /\ d[2] \in 1..12
    /\ d[3] \in 1..DaysInMonth(d[1], d[2])

RECURSIVE DaysBeforeYear(_, _)
\* The days from January 1 of `start' to January 1 of y.
DaysBeforeYear(start, y) ==
    IF y <= start THEN 0 ELSE DaysBeforeYear(start, y - 1) + DaysInYear(y - 1)

RECURSIVE DaysBeforeMonth(_, _)
\* The days from January 1 of y to the first of month m of y.
DaysBeforeMonth(y, m) ==
    IF m <= 1 THEN 0 ELSE DaysBeforeMonth(y, m - 1) + DaysInMonth(y, m - 1)

\* The days from January 1 of `start' to the date d.
DaysFromStart(start, d) ==
    DaysBeforeYear(start, d[1]) + DaysBeforeMonth(d[1], d[2]) + (d[3] - 1)

DateBefore(d, e) ==
    \/ d[1] < e[1]
    \/ d[1] = e[1] /\ d[2] < e[2]
    \/ d[1] = e[1] /\ d[2] = e[2] /\ d[3] < e[3]

\* C11: for every start year, generate_milestones() with the default cadence
\* of 6 months returns exactly 6 entries, and the labels carry the milestone
\* numbers 1, 2, 3, 4, 5, 6 in list order.
DefaultCadenceYieldsSixNumbered ==
    (MilestonesCalled /\ cadence = DefaultCadence) =>
        /\ Len(milestones) = 6
        /\ \A k \in 1..Len(milestones) :
              \E o \in 0..5 : milestones[k].name = MilestoneLabel(k, o)

\* The default call on an agent that starts in a leap year has returned its
\* six milestones.
DefaultCadenceCalledOnLeapStart ==
    /\ MilestonesCalled
    /\ cadence = DefaultCadence
    /\ IsLeap(agent.start_year)
    /\ Len(milestones) = 6
    /\ milestones[6].name = "Milestone 6 - Year 3"

MilestonesStayWithinThreeYears ==
    (MilestonesCalled /\ cadence \in 1..TotalMonths) =>
        /\ (Len(milestones) - 1) * cadence < TotalMonths
        /\ Len(milestones) * cadence >= TotalMonths
        /\ \A k \in 1..Len(milestones) :
              \E o \in 1..3 : milestones[k].name = MilestoneLabel(k, o)
        /\ \A k \in 1..(Len(milestones) - 1) :
              /\ DateBefore(milestones[k].date, milestones[k + 1].date)
              /\ \E o \in 1..3 : \E q \in o..3 :
                    /\ milestones[k].name = MilestoneLabel(k, o)
                    /\ milestones[k + 1].name = MilestoneLabel(k + 1, q)

\* A cadence that does not divide 36, on a leap start year: eight
\* milestones, the last in the third year.
UnevenCadenceCalledOnLeapStart ==
    /\ MilestonesCalled
    /\ cadence = 5
    /\ IsLeap(agent.start_year)
    /\ Len(milestones) = 8
    /\ milestones[8].name = "Milestone 8 - Year 3"

(***************************************************************************)
(* Properties of the text generate_narrative returns, under Spec.          *)
(***************************************************************************)
\* The positions at which `sub' occurs in `text'.
Occurrences(text, sub) ==
    {p \in 1..(Len(text) - Len(sub) + 1) : SubSeq(text, p, p + Len(sub) - 1) = sub}

StartsWith(text, prefix) ==
    Len(text) >= Len(prefix) /\ SubSeq(text, 1, Len(prefix)) = prefix
EndsWith(text, suffix) ==
    Len(text) >= Len(suffix)
    /\ SubSeq(text, Len(text) - Len(suffix) + 1, Len(text)) = suffix

RECURSIVE SplitFrom(_, _, _, _)
\* The pieces of `text' from position `from' on, cut at the occurrences
\* `hits' of the separator `sep', taken from left to right.
SplitFrom(text, sep, hits, from) ==
    LET later == {p \in hits : p >= from}
    IN  IF later = {} THEN <<SubSeq(text, from, Len(text))>>
        ELSE LET p == CHOOSE q \in later : \A r \in later : q <= r
             IN  <<SubSeq(text, from, p - 1)>>
                 \o SplitFrom(text, sep, hits, p + Len(sep))

\* text.split(sep)
Split(text, sep) == SplitFrom(text, sep, Occurrences(text, sep), 1)

(***************************************************************************)
(* The caller of Spec with targets given year by year: for each year a     *)
(* revenue, a customer count and a margin, any of them left out, and one   *)
(* extra metric that has a value for the first year only.                  *)
(***************************************************************************)
NarrativeYears == FirstYear .. (LastYear + 1)

\* 1000000 and 1234.5; 100; 0.2
RowInputs ==
    [revenue : {None, PyInt(1000000), PyFloat(1234500)},
     customers : {None, PyInt(100)},
     margin : {None, PyFloat(200)}]

ExtraInputs ==
    {None, [m \in {"net_profit"} |-> [y \in {FirstYear} |-> PyInt(5000)]]}

\* The mapping year -> value of one metric, for the years that have one.
MapFrom(rows, metric) ==
    [y \in {z \in DOMAIN rows : rows[z][metric] # None} |-> rows[y][metric]]

SetYearTargets ==
    /\ StageRank(stage) < 1
    /\ \E rows \in [NarrativeYears -> RowInputs] : \E other \in ExtraInputs :
          agent' = set_targets(agent, MapFrom(rows, "revenue"),
                               MapFrom(rows, "customers"),
                               MapFrom(rows, "margin"), other)
    /\ stage' = "targets"
    /\ UNCHANGED <<plan, narrative, reuseVars, apiVars, concVars, msVars, objVars>>

NarrativeNext ==
    \/ SetYearTargets
    \/ IdentifyWinningMoves
    \/ CreateSwot
    \/ BuildPlan
    \/ GenerateNarrative

SpecNarrative == Init /\ [][NarrativeNext]_vars

(***************************************************************************)
(* Properties of the returned narrative, under SpecNarrative.              *)
(***************************************************************************)
Returned == Narrated /\ narrative.status = "ok"

\* The paragraphs of a text: what blank lines separate.
ParagraphsOf(text) == Split(text, "\n\n")

\* How the sentence of the row of year y begins.
SentenceStart(y) == "In " \o ToString(y) \o ", we aim to generate $"

\* Where the sentence of year y begins in the targets paragraph (0 if it
\* does not begin exactly once).
SentencePos(targets, y) ==
    LET hits == Occurrences(targets, SentenceStart(y))
    IN  IF Cardinality(hits) = 1 THEN CHOOSE p \in hits : TRUE ELSE 0

\* The sentence of the i-th of `years' in the targets paragraph: from where
\* it begins to where the next begins, or to the end.
SentenceOf(targets, years, i) ==
    SubSeq(targets, SentencePos(targets, years[i]),
           IF i < Len(years) THEN SentencePos(targets, years[i + 1]) - 2
           ELSE Len(targets))

\* C13: the text generate_narrative() returns is six paragraphs separated by
\* one blank line, in the order intro, targets, moves, SWOT, execution,
\* closing; the targets paragraph holds exactly one sentence per row of the
\* target table, in ascending year order; and the rows are in that order
\* whatever order the years were inserted into the source mappings.
NarrativeIsSixOrderedParagraphs ==
    Returned =>
        LET parts == ParagraphsOf(narrative.text)
            rows == build_plan(agent).strategic_targets
            years == AscendingCoreYears(agent)
            targets == parts[2]
        IN  /\ Len(parts) = 6
            /\ StartsWith(parts[1], agent.company_name \o " exists to ")
            /\ targets = "" \/ StartsWith(targets, "In ")
            /\ StartsWith(parts[3], "To realise these goals")
            /\ StartsWith(parts[4], "Our SWOT analysis")
            /\ StartsWith(parts[5], "We will execute")
            /\ StartsWith(parts[6], "By aligning our team")
            /\ Len(rows) = Len(years)
            /\ \A i \in 1..Len(rows) : rows[i]["year"] = PyInt(years[i])
            /\ Cardinality(Occurrences(targets, ", we aim to generate $")) = Len(rows)
            /\ (rows = <<>>) <=> (targets = "")
            /\ rows # <<>> => SentencePos(targets, years[1]) = 1 /\ EndsWith(targets, ".")
            /\ \A i \in 1..Len(rows) : SentencePos(targets, years[i]) > 0
            /\ \A i \in 1..(Len(rows) - 1) :
                  /\ SentencePos(targets, years[i]) < SentencePos(targets, years[i + 1])
                  /\ EndsWith(SentenceOf(targets, years, i), ".")
            /\ \A rk \in KeyOrders(agent.revenue_targets) :
               \A ck \in KeyOrders(agent.customer_targets) :
               \A mk \in KeyOrders(agent.margin_targets) :
                  YearsOfKeys(rk, ck, mk) = years

\* A narrative was returned for a table of three rows.
ThreeRowNarrativeReturned ==
    /\ Returned
    /\ Len(build_plan(agent).strategic_targets) = 3
    /\ Len(ParagraphsOf(narrative.text)) = 6

\* The part of `text' between the first `left' and the first `right' after
\* it ("" when either is missing).
Between(text, left, right) ==
    LET ls == Occurrences(text, left)
        from == (CHOOSE p \in ls : \A q \in ls : p <= q) + Len(left)
        rs == {p \in Occurrences(text, right) : p >= from}
        to == (CHOOSE p \in rs : \A q \in rs : p <= q) - 1
    IN  IF ls = {} \/ rs = {} THEN "" ELSE SubSeq(text, from, to)

RECURSIVE StripCommas(_)
StripCommas(txt) ==
    IF txt = "" THEN ""
    ELSE (IF SubSeq(txt, 1, 1) = "," THEN "" ELSE SubSeq(txt, 1, 1))
         \o StripCommas(SubSeq(txt, 2, Len(txt)))

\* The integers nearest to the number v scaled by num/den (both, on a tie).
NearestIntegers(v, num, den) ==
    IF v.t = "int" THEN {(v.n * num) \div den}
    ELSE LET q == (v.n * num) \div (1000 * den)
         IN  {n \in {q, q + 1} :
                 2 * (n * 1000 * den - v.n * num) \in (0 - 1000 * den)..(1000 * den)}

\* txt is the number v as an integer with its digits grouped in threes.
IsGroupedInteger(txt, v) ==
    /\ Len(txt) > 0
    /\ \E n \in NearestIntegers(v, 1, 1) : StripCommas(txt) = ToString(n)
    /\ \A p \in 1..Len(txt) :
          (SubSeq(txt, p, p) = ",") <=> ((Len(txt) - p + 1) % 4 = 0)

\* txt is the fraction v times 100, with no decimals.
IsPercent(txt, v) == \E n \in NearestIntegers(v, 100, 1) : txt = ToString(n)

\* A row in which revenue, customer count and margin are present.
RowComplete(t) ==
    t["revenue"] # None /\ t["customers"] # None /\ t["gross_margin"] # None

\* The table and the SWOT of the end-to-end example: 2025 with revenue
\* 1000000, 100 customers and margin 0.2, and nothing else.
AcmeExample(a) ==
    /\ a.company_name = "Acme"
    /\ a.revenue_targets = [y \in {2025} |-> PyInt(1000000)]
    /\ a.customer_targets = [y \in {2025} |-> PyInt(100)]
    /\ a.margin_targets = [y \in {2025} |-> PyFloat(200)]
    /\ a.other_targets = EmptyDict

\* C14: in a returned narrative, the sentence of a row whose revenue,
\* customer count and margin are all present is "In {year}, we aim to
\* generate ${revenue} in revenue and serve {customers} customers, achieving
\* a gross margin of {margin}%", the revenue a thousands-grouped integer and
\* the margin the fraction times 100 without decimals; and for Acme with the
\* targets {2025: 1000000, 100, 0.2} the table is the one row 2025 with those
\* values and, the SWOT supplied, the targets paragraph contains "In 2025, we
\* aim to generate $1,000,000 in revenue and serve 100 customers, achieving a
\* gross margin of 20%".
CompleteRowSentenceFormat ==
    /\ Returned =>
          LET targets == ParagraphsOf(narrative.text)[2]
              rows == build_plan(agent).strategic_targets
              years == AscendingCoreYears(agent)
          IN  \A i \in 1..Len(rows) : RowComplete(rows[i]) =>
                 LET sentence == SentenceOf(targets, years, i)
                     r == Between(sentence, "generate $", " in revenue and serve ")
                     c == Between(sentence, " in revenue and serve ",
                                  " customers, achieving a gross margin of ")
                     m == Between(sentence, " customers, achieving a gross margin of ", "%")
                 IN  /\ StartsWith(sentence,
                            "In " \o ToString(years[i]) \o ", we aim to generate $" \o r
                            \o " in revenue and serve " \o c
                            \o " customers, achieving a gross margin of " \o m \o "%")
                     /\ IsGroupedInteger(r, rows[i]["revenue"])
                     /\ c = ToString(rows[i]["customers"].n)
                     /\ IsPercent(m, rows[i]["gross_margin"])
    /\ (Built /\ AcmeExample(agent)) =>
          plan.strategic_targets =
             <<[year |-> PyInt(2025), revenue |-> PyInt(1000000),
                customers |-> PyInt(100), gross_margin |-> PyFloat(200)]>>
    /\ (Narrated /\ AcmeExample(agent) /\ agent.swot # None) =>
          /\ narrative.status = "ok"
          /\ Occurrences(ParagraphsOf(narrative.text)[2],
                "In 2025, we aim to generate $1,000,000 in revenue and serve 100 customers, achieving a gross margin of 20%") # {}

\* The end-to-end example has been built and narrated.
AcmeExampleNarrated ==
    /\ Built
    /\ Returned
    /\ AcmeExample(agent)
    /\ agent.swot # None
    /\ agent.revenue_moves = <<"Launch X">>

(***************************************************************************)
(* The lists and dicts behind the agent.  An attribute of the agent refers *)
(* to an object; an assignment makes it refer to the object assigned, and  *)
(* the dict build_plan returns refers to the objects the agent refers to   *)
(* at that moment (lines 438-447 store self.core_values,                   *)
(* self.baseline_metrics, self.revenue_moves, self.profit_moves and        *)
(* self.swot themselves, not copies).  `agent' and `plan' hold what these  *)
(* references lead to.  The rows of strategic_targets are new dicts of     *)
(* numbers, so the target mappings are kept by value.                      *)
(***************************************************************************)
MaxCalls == 5

ObjFields == {"core_values", "baseline_metrics", "revenue_moves", "profit_moves", "swot"}

\* Enough identities for the objects of the agent, those of a plan, and the
\* two that identify_winning_moves is passed.
ObjIds == 1 .. (2 * Cardinality(ObjFields) + 2)

\* The reference 0 is None.
NoRefs == [f \in ObjFields |-> 0]
Deref(h, id) == IF id = 0 THEN None ELSE h[id]

Used(r) == ({r.agent[f] : f \in ObjFields} \cup {r.plan[f] : f \in ObjFields}) \ {0}
Fresh(r) == CHOOSE id \in ObjIds \ Used(r) : \A other \in ObjIds \ Used(r) : id <= other

\* The heap without the objects nothing refers to any more.
Collect(h, r) == [id \in ObjIds |-> IF id \in Used(r) THEN h[id] ELSE None]

\* An assignment that writes into the object the attribute already refers
\* to (self.x[:] = x, self.x.update(x)) instead of referring to a new one.
BindInPlace(h, r, field, value) ==
    IF r.agent[field] = 0
    THEN [heap |-> [h EXCEPT ![Fresh(r)] = value],
          refs |-> [r EXCEPT !.agent[field] = Fresh(r)]]
    ELSE [heap |-> [h EXCEPT ![r.agent[field]] = value], refs |-> r]

\* self.<field> = value: the attribute refers to the object `value'.
Bind(h, r, field, value) ==
    [heap |-> [h EXCEPT ![Fresh(r)] = value],
     refs |-> [r EXCEPT !.agent[field] = Fresh(r)]]

\* The agent and the plan with their references followed.
AgentView(a, r, h) ==
    [a EXCEPT !.core_values = Deref(h, r.agent.core_values),
              !.baseline_metrics = Deref(h, r.agent.baseline_metrics),
              !.revenue_moves = Deref(h, r.agent.revenue_moves),
              !.profit_moves = Deref(h, r.agent.profit_moves),
              !.swot = Deref(h, r.agent.swot)]
PlanView(p, r, h) ==
    IF p = None THEN None
    ELSE [p EXCEPT !.company_profile.core_values = Deref(h, r.plan.core_values),
                   !.baseline_metrics = Deref(h, r.plan.baseline_metrics),
                   !.winning_moves = [revenue_moves |-> Deref(h, r.plan.revenue_moves),
                                      profit_moves |-> Deref(h, r.plan.profit_moves)],
                   !.swot_analysis = Deref(h, r.plan.swot)]

\* What the caller passes after construction.
ObjInput == CycleInput(1)

ObjInit ==
    /\ agent \in {AgentOf(p, FirstYear) : p \in Profiles}
    /\ heap = [id \in ObjIds |->
                  CASE id = 1 -> agent.core_values
                    [] id = 2 -> agent.baseline_metrics
                    [] id = 3 -> agent.revenue_moves
                    [] id = 4 -> agent.profit_moves
                    [] OTHER -> None]
    /\ refs = [agent |-> [core_values |-> 1, baseline_metrics |-> 2,
                          revenue_moves |-> 3, profit_moves |-> 4, swot |-> 0],
               plan |-> NoRefs]
    /\ ncalls = 0
    /\ stage = "new"
    /\ plan = None
    /\ narrative = None
    /\ cycle = 1
    /\ twin = None
    /\ request = None
    /\ response = None
    /\ pc = <<>>
    /\ result = <<>>
    /\ cadence = DefaultCadence
    /\ milestones = <<>>

\* The state after a step that leaves the agent's own values `a' and the
\* objects and references `b'.
Settle(a, b) ==
    /\ heap' = Collect(b.heap, b.refs)
    /\ refs' = b.refs
    /\ agent' = AgentView(a, b.refs, heap')
    /\ plan' = PlanView(plan, b.refs, heap')
    /\ ncalls' = ncalls + 1

\* agent.company_name = ...; agent.core_values = ...
ObjAssign ==
    /\ ncalls < MaxCalls
    /\ \/ Settle([agent EXCEPT !.company_name = ObjInput.company_name],
                 [heap |-> heap, refs |-> refs])
       \/ Settle(agent, Bind(heap, refs, "core_values", ObjInput.core_values))
    /\ stage' = "assign"
    /\ UNCHANGED <<narrative, reuseVars, apiVars, concVars, msVars>>

ObjSetTargets ==
    /\ ncalls < MaxCalls
    /\ Settle(set_targets(agent, ObjInput.revenue_targets, ObjInput.customer_targets,
                          ObjInput.margin_targets, ObjInput.other_targets),
              [heap |-> heap, refs |-> refs])
    /\ stage' = "targets"
    /\ UNCHANGED <<narrative, reuseVars, apiVars, concVars, msVars>>

ObjMoves ==
    /\ ncalls < MaxCalls
    /\ LET b == Bind(heap, refs, "revenue_moves", ObjInput.revenue_moves)
       IN  Settle(agent, Bind(b.heap, b.refs, "profit_moves", ObjInput.profit_moves))
    /\ stage' = "moves"
    /\ UNCHANGED <<narrative, reuseVars, apiVars, concVars, msVars>>

ObjSwot ==
    /\ ncalls < MaxCalls
    /\ Settle(agent, Bind(heap, refs, "swot", ObjInput.swot))
    /\ stage' = "swot"
    /\ UNCHANGED <<narrative, reuseVars, apiVars, concVars, msVars>>

ObjBuildPlan ==
    /\ ncalls < MaxCalls
    /\ plan' = build_plan(agent)
    /\ refs' = [refs EXCEPT !.plan = refs.agent]
    /\ heap' = Collect(heap, refs')
    /\ ncalls' = ncalls + 1
    /\ stage' = "plan"
    /\ UNCHANGED <<agent, narrative, reuseVars, apiVars, concVars, msVars>>

ObjNarrative ==
    /\ ncalls < MaxCalls
    /\ narrative' = generate_narrative(agent)
    /\ ncalls' = ncalls + 1
    /\ stage' = "narrative"
    /\ UNCHANGED <<agent, plan, heap, refs, reuseVars, apiVars, concVars, msVars>>

ObjNext ==
    \/ ObjAssign
    \/ ObjSetTargets
    \/ ObjMoves
    \/ ObjSwot
    \/ ObjBuildPlan
    \/ ObjNarrative

SpecObjects == ObjInit /\ [][ObjNext]_vars

\* C15: build_plan() and generate_narrative() leave every field of the agent
\* as it was, and the plan build_plan() returned keeps its contents through
\* every later set_targets, identify_winning_moves, create_swot and
\* assignment to a profile field (and through generate_narrative).
ReadOnlyCallsAndPlanKept ==
    [][/\ stage' \in {"plan", "narrative"} => agent' = agent
       /\ (plan # None /\ stage' # "plan") => plan' = plan]_vars

\* A plan built on the new agent, which has since been given a name, core
\* values and moves: the plan still holds what it was built from.
PlanOutlivesLaterCalls ==
    /\ plan # None
    /\ plan.company_profile.name = "Acme"
    /\ agent.company_name = ObjInput.company_name
    /\ plan.company_profile.core_values = <<"Integrity">>
    /\ agent.core_values = ObjInput.core_values
    /\ plan.winning_moves.revenue_moves = <<>>
    /\ agent.revenue_moves = ObjInput.revenue_moves

====
